---------------------------- MODULE Spec2Model ----------------------------
(***************************************************************************)
(* Provider abstraction and dispatch layer of origin-voicebox:             *)
(*   backend/providers/local.py      LocalProvider   (remote-process)      *)
(*   backend/providers/bundled.py    BundledProvider (in-process)          *)
(*   backend/backends/replicate_backend.py  ReplicateTTSBackend /          *)
(*                                   ReplicateSTTBackend (cloud)           *)
(*   backend/platform_detect.py      get_backend_type (backend selector)   *)
(*                                                                         *)
(* One provider family is active per process (variable kind).  Coroutines  *)
(* run on one cooperative event loop: the code between two suspension      *)
(* points is one atomic step.  A suspended coroutine is an element of the  *)
(* bag tasks; ev is the label of the last step taken (operation, inputs,   *)
(* what it sent, returned or raised).  Environment variables, file         *)
(* contents and the peer's answers are inputs of the step that reads them. *)
(***************************************************************************)
EXTENDS Naturals, Integers, Sequences, FiniteSets, Bags, TLC

VARIABLES
    kind,        \* which provider family this process instantiated
    local,       \* LocalProvider fields
    requested,   \* history: argument of the most recent LocalProvider.load_model_async
    bundled,     \* BundledProvider fields
    runtime,     \* the in-process runtime behind get_tts_backend()
    platform,    \* what the platform module reports, importable packages, GPU
    cloud,       \* ReplicateTTSBackend fields
    replicate,   \* the module-level name replicate (None: the import failed)
    loop,        \* "free", or the blocking call the event-loop thread sits in
    tasks,       \* bag of suspended coroutines
    ev           \* label of the last step

vars == <<kind, local, requested, bundled, runtime, platform, cloud, replicate, loop, tasks, ev>>

\* Python's None, rendered as a string so that optional fields stay comparable.
None == "None"

\* How many coroutines may be suspended at once.
MaxTasks == 2

Kinds == {"local", "replicate", "bundled"}

\* Exception classes the model distinguishes.  All derive from Exception.
ExceptionClasses ==
    {"RuntimeError", "ConnectError", "TimeoutException", "HTTPStatusError",
     "JSONDecodeError", "KeyError", "FileNotFoundError", "ValueError",
     "ImportError", "IndexError", "AttributeError", "UnsupportedProtocol"}

IsException(e) == e \in ExceptionClasses

---------------------------------------------------------------------------
(* JSON objects received from the sidecar: the fields present and their    *)
(* values.  data[k] raises KeyError when k is absent; data.get(k, d) gives *)
(* d.                                                                      *)

HasKey(data, k) == k \in data.present

Get(data, k, d) == IF HasKey(data, k) THEN data.val[k] ELSE d

\* What the sidecar can do to one HTTP request.
Outcomes == {"refused", "timeout", "non2xx", "badjson", "json"}

\* The exception the awaited request, raise_for_status() or json() raises.
TransportError(outcome) ==
    CASE outcome = "refused" -> "ConnectError"
      [] outcome = "timeout" -> "TimeoutException"
      [] outcome = "non2xx"  -> "HTTPStatusError"
      [] outcome = "badjson" -> "JSONDecodeError"
      [] OTHER               -> None

---------------------------------------------------------------------------
(* LocalProvider: the remote-process provider (backend/providers/local.py) *)

\* Model sizes a caller may pass to load_model_async (any string is accepted).
SizeArgs == {"1.7B", "0.6B", "13B"}

\* A suspended coroutine: the operation, where it is suspended, and the
\* value it holds across the suspension.
NoVal == [type |-> None, items |-> <<>>]

Task(op, pc, val) == [op |-> op, pc |-> pc, val |-> val]

LocalProvider_init == [client |-> "open", current_model_size |-> "1.7B"]

\* An HTTP request handed to the shared client.  model_size is the JSON
\* body's field of that name (None: the request has no such field).
Request(method, path, model_size) ==
    [method |-> method, path |-> path, model_size |-> model_size]

\* Mutant: the request is handed over whatever the client's state.
Mut_ClientSend_ignores_closed(self, req) ==
    [raised |-> None, sent |-> <<req>>]

\* self.client.get / self.client.post up to the point where the coroutine is
\* suspended: a closed client refuses the request at once.
ClientSend(self, req) ==
    IF self.client = "closed"
    THEN [raised |-> "RuntimeError", sent |-> <<>>]
    ELSE [raised |-> None, sent |-> <<req>>]

LocalProvider_generate_send(self) ==
    ClientSend(self, Request("POST", "/tts/generate", self.current_model_size))

\* Mutant: a failed request is answered with an empty clip instead of raising.
Mut_generate_recv_silent_fallback(outcome, data) ==
    IF TransportError(outcome) # None
    THEN [raised |-> None, ret |-> <<"", 24000>>]
    ELSE IF ~HasKey(data, "audio") \/ ~HasKey(data, "sample_rate")
    THEN [raised |-> "KeyError", ret |-> <<>>]
    ELSE [raised |-> None, ret |-> <<data.val["audio"], data.val["sample_rate"]>>]

\* generate after the response arrived: raise_for_status, json, the two keys.
LocalProvider_generate_recv(outcome, data) ==
    IF TransportError(outcome) # None
    THEN [raised |-> TransportError(outcome), ret |-> <<>>]
    ELSE IF ~HasKey(data, "audio") \/ ~HasKey(data, "sample_rate")
    THEN [raised |-> "KeyError", ret |-> <<>>]
    ELSE [raised |-> None, ret |-> <<data.val["audio"], data.val["sample_rate"]>>]

\* create_voice_prompt up to the suspension: open() of the reference file,
\* then the multipart POST.
LocalProvider_create_voice_prompt_send(self, file_exists) ==
    IF ~file_exists
    THEN [raised |-> "FileNotFoundError", sent |-> <<>>]
    ELSE ClientSend(self, Request("POST", "/tts/create_voice_prompt", None))

LocalProvider_create_voice_prompt_recv(outcome, data) ==
    IF TransportError(outcome) # None
    THEN [raised |-> TransportError(outcome), ret |-> <<>>]
    ELSE IF ~HasKey(data, "voice_prompt")
    THEN [raised |-> "KeyError", ret |-> <<>>]
    ELSE [raised |-> None,
          ret |-> <<data.val["voice_prompt"], Get(data, "was_cached", FALSE)>>]

\* Mutant: the requested size is accepted and not tracked.
Mut_load_model_async_untracked(self, model_size) == self

LocalProvider_load_model_async(self, model_size) ==
    [self EXCEPT !.current_model_size = model_size]

\* Mutant: unloading forgets the tracked size and falls back to the default.
Mut_unload_model_resets_size(self) ==
    [self EXCEPT !.current_model_size = "1.7B"]

LocalProvider_unload_model(self) == self

LocalProvider_is_loaded(self) == TRUE

LocalProvider_get_model_path(model_size) ==
    <<"Qwen/Qwen3-TTS-12Hz-", model_size, "-Base">>

\* The snapshot health() builds in its except branch.
UnhealthyDefault ==
    [status |-> "unhealthy", provider |-> "local", version |-> None,
     model |-> None, device |-> None]

\* The snapshot status() builds in its except branch.  An optional boolean or
\* number is a sequence of at most one element (<<>> is None).
EmptyStatus ==
    [model_loaded |-> FALSE, model_size |-> None, available_sizes |-> <<>>,
     gpu_available |-> <<>>, vram_used_mb |-> <<>>]

\* The try body of health(): the GET, raise_for_status, json, the fields.
LocalProvider_health_try(sendRaised, outcome, data) ==
    IF sendRaised # None
    THEN [raised |-> sendRaised, ret |-> UnhealthyDefault]
    ELSE IF TransportError(outcome) # None
    THEN [raised |-> TransportError(outcome), ret |-> UnhealthyDefault]
    ELSE IF ~HasKey(data, "status") \/ ~HasKey(data, "provider")
    THEN [raised |-> "KeyError", ret |-> UnhealthyDefault]
    ELSE [raised |-> None,
          ret |-> [status |-> data.val["status"],
                   provider |-> data.val["provider"],
                   version |-> Get(data, "version", None),
                   model |-> Get(data, "model", None),
                   device |-> Get(data, "device", None)]]

\* Mutant: only the HTTP client's own errors are caught.
Mut_health_catches_http_errors_only(sendRaised, outcome, data) ==
    LET r == LocalProvider_health_try(sendRaised, outcome, data)
    IN  IF r.raised \in {"ConnectError", "TimeoutException", "HTTPStatusError"}
        THEN [raised |-> None, ret |-> UnhealthyDefault]
        ELSE r

\* health(): try body, and "except Exception" returning the default.
LocalProvider_health(sendRaised, outcome, data) ==
    LET r == LocalProvider_health_try(sendRaised, outcome, data)
    IN  IF r.raised # None /\ IsException(r.raised)
        THEN [raised |-> None, ret |-> UnhealthyDefault]
        ELSE r

LocalProvider_status_try(sendRaised, outcome, data) ==
    IF sendRaised # None
    THEN [raised |-> sendRaised, ret |-> EmptyStatus]
    ELSE IF TransportError(outcome) # None
    THEN [raised |-> TransportError(outcome), ret |-> EmptyStatus]
    ELSE IF ~HasKey(data, "model_loaded")
    THEN [raised |-> "KeyError", ret |-> EmptyStatus]
    ELSE [raised |-> None,
          ret |-> [model_loaded |-> data.val["model_loaded"],
                   model_size |-> Get(data, "model_size", None),
                   available_sizes |-> Get(data, "available_sizes", <<>>),
                   gpu_available |-> Get(data, "gpu_available", <<>>),
                   vram_used_mb |-> Get(data, "vram_used_mb", <<>>)]]

LocalProvider_status(sendRaised, outcome, data) ==
    LET r == LocalProvider_status_try(sendRaised, outcome, data)
    IN  IF r.raised # None /\ IsException(r.raised)
        THEN [raised |-> None, ret |-> EmptyStatus]
        ELSE r

\* stop(): aclose() marks the client closed; closing a closed client is a no-op.
LocalProvider_stop(self) == [self EXCEPT !.client = "closed"]

---------------------------------------------------------------------------
(* ReplicateTTSBackend / ReplicateSTTBackend: the cloud provider           *)
(* (backend/backends/replicate_backend.py)                                 *)

\* Python truthiness of a string-or-None value.
Truthy(v) == v # None /\ v # ""

\* Python's "a or b".
Or(a, b) == IF Truthy(a) THEN a ELSE b

\* os.environ.get(name) for a variable of the snapshot env (None when unset).
EnvGet(env, name) == env[name]

ConfigError ==
    "ValueError: REPLICATE_API_TOKEN or REPLICATE_API_KEY environment variable not set"

ValidationError == "ValueError: Reference audio is required for voice_clone mode"

NoAudioURL == "ValueError: No audio URL returned from Replicate"

ReplicateTTSBackend_init == [loaded |-> FALSE, client |-> None]

\* Mutant: only REPLICATE_API_TOKEN is consulted.
Mut_load_model_async_token_only(self, sdk, env) ==
    IF sdk = None
    THEN [self |-> self, raised |-> "ImportError"]
    ELSE LET api_token == EnvGet(env, "REPLICATE_API_TOKEN")
         IN  IF ~Truthy(api_token)
             THEN [self |-> self, raised |-> ConfigError]
             ELSE [self |-> [loaded |-> TRUE, client |-> api_token],
                   raised |-> None]

\* load_model_async: sdk is the module-level name replicate (None when the
\* import failed).  The client handle is rendered by the token it was built with.
ReplicateTTSBackend_load_model_async(self, sdk, env) ==
    IF sdk = None
    THEN [self |-> self, raised |-> "ImportError"]
    ELSE LET api_token == Or(EnvGet(env, "REPLICATE_API_TOKEN"),
                             EnvGet(env, "REPLICATE_API_KEY"))
         IN  IF ~Truthy(api_token)
             THEN [self |-> self, raised |-> ConfigError]
             ELSE [self |-> [loaded |-> TRUE, client |-> api_token],
                   raised |-> None]

\* Mutant: the client handle is dropped, the loaded flag is left as it is.
Mut_unload_model_keeps_flag(self) == [self EXCEPT !.client = None]

ReplicateTTSBackend_unload_model(self) == [loaded |-> FALSE, client |-> None]

ReplicateTTSBackend_is_loaded(self) == self.loaded

ReplicateTTSBackend_get_model_path(model_size) == "qwen/qwen3-tts"

\* str.lower() on the strings the model draws.
Lower(str) ==
    CASE str = ".WAV"    -> ".wav"
      [] str = ".Mp3"    -> ".mp3"
      [] str = "MLX"     -> "mlx"
      [] str = "PyTorch" -> "pytorch"
      [] OTHER           -> str

\* Mutant: the table's .m4a entry carries the extension's own name.
Mut_MimeType_m4a_by_name(ext) ==
    CASE ext = ".wav"  -> "audio/wav"
      [] ext = ".mp3"  -> "audio/mpeg"
      [] ext = ".flac" -> "audio/flac"
      [] ext = ".ogg"  -> "audio/ogg"
      [] ext = ".m4a"  -> "audio/m4a"
      [] OTHER         -> "audio/wav"

\* The extension table of create_voice_prompt and its .get default.
MimeType(ext) ==
    CASE ext = ".wav"  -> "audio/wav"
      [] ext = ".mp3"  -> "audio/mpeg"
      [] ext = ".flac" -> "audio/flac"
      [] ext = ".ogg"  -> "audio/ogg"
      [] ext = ".m4a"  -> "audio/mp4"
      [] OTHER         -> "audio/wav"

\* base64.b64encode(...).decode("utf-8") on the file contents the model draws.
B64Encode(bytes) ==
    CASE bytes = ""     -> ""
      [] bytes = "RIFF" -> "UklGRg=="

\* create_voice_prompt: path is [ext, exists, bytes].
ReplicateTTSBackend_create_voice_prompt(path, reference_text, use_cache) ==
    IF ~path.exists
    THEN [raised |-> "FileNotFoundError", ret |-> <<>>]
    ELSE [raised |-> None,
          ret |-> <<[audio_base64 |-> B64Encode(path.bytes),
                     audio_mime_type |-> MimeType(Lower(path.ext)),
                     reference_text |-> reference_text,
                     backend |-> "replicate"],
                    FALSE>>]

\* generate up to its first suspension: lazy load, validation, input_data and
\* the hand-over of run_sync to the executor.  voice_prompt is a dict
\* (present keys and values); submitted is the input_data given to the
\* executor (<<>>: nothing was submitted).
ReplicateTTSBackend_generate(self, sdk, env, text, voice_prompt, seed) ==
    LET load == IF ~self.loaded
                THEN ReplicateTTSBackend_load_model_async(self, sdk, env)
                ELSE [self |-> self, raised |-> None]
    IN  IF load.raised # None
        THEN [self |-> load.self, raised |-> load.raised, submitted |-> <<>>]
        ELSE IF ~Truthy(Get(voice_prompt, "audio_base64", None))
        THEN [self |-> load.self, raised |-> ValidationError, submitted |-> <<>>]
        ELSE [self |-> load.self, raised |-> None,
              submitted |->
                <<[text |-> text, mode |-> "Clone",
                   ref_audio |-> <<"data:", Get(voice_prompt, "audio_mime_type", "audio/wav"),
                                   ";base64,", voice_prompt.val["audio_base64"]>>,
                   ref_text |-> IF Truthy(Get(voice_prompt, "reference_text", None))
                                THEN voice_prompt.val["reference_text"] ELSE None,
                   seed |-> seed]>>]

\* run_sync on the worker thread: self._client is read when the worker runs
\* it.  A None client has no attribute run.
RunSyncStart(self) ==
    IF self.client = None THEN "AttributeError" ELSE None

\* Values client.run may hand back.
Output(type, items) == [type |-> type, items |-> items]

Url1 == "https://replicate.delivery/out.wav"

Url2 == "https://replicate.delivery/alt.wav"

JobOutputs ==
    {Output("str", <<Url1>>), Output("str", <<"">>),
     Output("list", <<>>), Output("list", <<Url1>>), Output("list", <<Url2, Url1>>),
     Output("iterator", <<>>), Output("iterator", <<Url2>>),
     Output("NoneType", <<>>), Output("object", <<Url1>>)}

\* isinstance(output, str)
IsStr(output) == output.type = "str"

\* hasattr(output, '__iter__')
HasIter(output) == output.type \in {"str", "list", "iterator"}

\* bool(output): an empty list is falsy, an iterator object is always truthy.
OutputTruthy(output) ==
    CASE output.type = "list"     -> Len(output.items) > 0
      [] output.type = "NoneType" -> FALSE
      [] OTHER                    -> TRUE

\* str(output) of a value that is neither a str nor iterable.
Str(output) == IF output.type = "NoneType" THEN "None" ELSE output.items[1]

\* _download_audio up to its suspension: the URL choice, the emptiness test
\* and the GET.  request is the URL handed to client.get (<<>>: none).
ReplicateTTSBackend_download_audio(output) ==
    LET pick ==
          IF IsStr(output)
          THEN [raised |-> None, url |-> output.items[1]]
          ELSE IF HasIter(output)
          THEN IF OutputTruthy(output)
               THEN IF Len(output.items) = 0
                    THEN [raised |-> "IndexError", url |-> None]
                    ELSE [raised |-> None, url |-> output.items[1]]
               ELSE [raised |-> None, url |-> None]
          ELSE [raised |-> None, url |-> Str(output)]
    IN  IF pick.raised # None
        THEN [raised |-> pick.raised, request |-> <<>>]
        ELSE IF ~Truthy(pick.url)
        THEN [raised |-> NoAudioURL, request |-> <<>>]
        ELSE [raised |-> None, request |-> <<pick.url>>]

\* What the download can end in.  A URL without a scheme never reaches a
\* server: the client rejects it.
DownloadOutcomes(url) ==
    IF url \in {Url1, Url2}
    THEN {"ok", "refused", "timeout", "non2xx"}
    ELSE {"unsupported"}

DownloadError(outcome) ==
    CASE outcome = "unsupported" -> "UnsupportedProtocol"
      [] OTHER                   -> TransportError(outcome)

\* transcribe up to client.run: the sdk, the credential, the file.
ReplicateSTTBackend_transcribe(sdk, env, file_exists) ==
    IF sdk = None
    THEN "ImportError"
    ELSE IF ~Truthy(Or(EnvGet(env, "REPLICATE_API_TOKEN"),
                       EnvGet(env, "REPLICATE_API_KEY")))
    THEN "ValueError: REPLICATE_API_TOKEN or REPLICATE_API_KEY not set"
    ELSE IF ~file_exists
    THEN "FileNotFoundError"
    ELSE None

\* What transcribe returns for the value client.run handed back.
ReplicateSTTBackend_transcribe_result(output) ==
    IF output.type = "dict"
    THEN Get(output.items[1], "transcription", "")
    ELSE Str(output)

---------------------------------------------------------------------------
(* Backend selector (backend/platform_detect.py)                           *)

\* is_apple_silicon(): host is what the platform module reports.
is_apple_silicon(host) == host.system = "Darwin" /\ host.machine = "arm64"

\* os.environ.get(name, default)
EnvGetDefault(env, name, default) ==
    IF env[name] = None THEN default ELSE env[name]

\* Mutant: the override is compared as written, without lower().
Mut_get_backend_type_case_sensitive(env, host) ==
    LET backend_env == EnvGetDefault(env, "TTS_BACKEND", "")
    IN  IF backend_env \in {"mlx", "pytorch", "replicate"}
        THEN backend_env
        ELSE IF Truthy(Or(EnvGet(env, "REPLICATE_API_TOKEN"),
                          EnvGet(env, "REPLICATE_API_KEY")))
        THEN "replicate"
        ELSE IF is_apple_silicon(host)
        THEN IF host.mlx THEN "mlx" ELSE "pytorch"
        ELSE "pytorch"

\* get_backend_type() for an environment snapshot and a host.
get_backend_type(env, host) ==
    LET backend_env == Lower(EnvGetDefault(env, "TTS_BACKEND", ""))
    IN  IF backend_env \in {"mlx", "pytorch", "replicate"}
        THEN backend_env
        ELSE IF Truthy(Or(EnvGet(env, "REPLICATE_API_TOKEN"),
                          EnvGet(env, "REPLICATE_API_KEY")))
        THEN "replicate"
        ELSE IF is_apple_silicon(host)
        THEN IF host.mlx THEN "mlx" ELSE "pytorch"
        ELSE "pytorch"

---------------------------------------------------------------------------
(* BundledProvider: the in-process provider (backend/providers/bundled.py) *)
(* The runtime it wraps (backends.get_tts_backend and the TTSBackend it    *)
(* returns) is a record: how many instances were built, whether a model is *)
(* loaded, at which size, on which device.                                 *)

BundledProvider_init == [backend |-> None]

Runtime_init ==
    [instances |-> 0, loaded |-> FALSE, current_model_size |-> None,
     device |-> "cpu"]

\* backends.get_tts_backend(): the process-wide runtime, built on first use.
get_tts_backend(rt) ==
    IF rt.instances = 0 THEN [rt EXCEPT !.instances = 1] ELSE rt

\* Mutant: the handle is never kept, every call asks for a fresh runtime.
Mut_get_backend_uncached(self, rt) ==
    [self |-> [self EXCEPT !.backend = "runtime"],
     rt |-> [instances |-> 1, loaded |-> FALSE, current_model_size |-> None,
             device |-> rt.device]]

\* Mutant: the None test is dropped, a runtime is built on every call.
Mut_get_backend_rebuilt(self, rt) ==
    [self |-> [self EXCEPT !.backend = "runtime"],
     rt |-> [rt EXCEPT !.instances = IF @ < 2 THEN @ + 1 ELSE @]]

\* _get_backend(): the handle is filled on first use.
BundledProvider_get_backend(self, rt) ==
    IF self.backend = None
    THEN [self |-> [self EXCEPT !.backend = "runtime"], rt |-> get_tts_backend(rt)]
    ELSE [self |-> self, rt |-> rt]

\* TTSBackend.load_model_async / unload_model / is_loaded of the runtime.
Runtime_load_model(rt, model_size) ==
    [rt EXCEPT !.loaded = TRUE, !.current_model_size = model_size]

Runtime_unload_model(rt) ==
    [rt EXCEPT !.loaded = FALSE, !.current_model_size = None]

Runtime_is_loaded(rt) == rt.loaded

BundledProvider_load_model_async(self, rt, model_size) ==
    LET g == BundledProvider_get_backend(self, rt)
    IN  [self |-> g.self, rt |-> Runtime_load_model(g.rt, model_size)]

BundledProvider_unload_model(self, rt) ==
    LET g == BundledProvider_get_backend(self, rt)
    IN  [self |-> g.self, rt |-> Runtime_unload_model(g.rt)]

BundledProvider_is_loaded(self, rt) ==
    LET g == BundledProvider_get_backend(self, rt)
    IN  [self |-> g.self, rt |-> g.rt, ret |-> Runtime_is_loaded(g.rt)]

\* TTSBackend.generate of the runtime up to its suspension: synthesis runs
\* against the loaded model; on a runtime without a model the call either
\* loads the default size first (lazy) or raises.
Runtime_generate(rt, lazy) ==
    IF Runtime_is_loaded(rt)
    THEN [rt |-> rt, raised |-> None]
    ELSE IF lazy
    THEN [rt |-> Runtime_load_model(rt, "1.7B"), raised |-> None]
    ELSE [rt |-> rt, raised |-> "RuntimeError"]

\* What a synthesis that was suspended in the runtime can end in: with the
\* model gone meanwhile it finishes on the model object it still holds, or
\* raises.
Runtime_generate_outcomes(rt) ==
    IF Runtime_is_loaded(rt) THEN {None} ELSE {None, "RuntimeError"}

\* TTSBackend._get_model_path of the runtime.
Runtime_get_model_path(model_size) == <<"runtime-model-", model_size>>

\* generate: _get_backend(), then the await of backend.generate(...).
BundledProvider_generate(self, rt, lazy) ==
    LET g == BundledProvider_get_backend(self, rt)
        r == Runtime_generate(g.rt, lazy)
    IN  [self |-> g.self, rt |-> r.rt, raised |-> r.raised]

\* create_voice_prompt / combine_voice_prompts: _get_backend(), then the
\* runtime's method, whose result is passed through.
BundledProvider_create_voice_prompt(self, rt) ==
    BundledProvider_get_backend(self, rt)

BundledProvider_combine_voice_prompts(self, rt) ==
    BundledProvider_get_backend(self, rt)

BundledProvider_get_model_path(self, rt, model_size) ==
    LET g == BundledProvider_get_backend(self, rt)
    IN  [self |-> g.self, rt |-> g.rt, ret |-> Runtime_get_model_path(model_size)]

\* The model size health() and status() report.
ReportedModelSize(rt) ==
    IF Runtime_is_loaded(rt) /\ Truthy(rt.current_model_size)
    THEN rt.current_model_size
    ELSE None

BundledProvider_health(self, rt, env, host) ==
    LET g == BundledProvider_get_backend(self, rt)
        backend_type == get_backend_type(env, host)
    IN  [self |-> g.self, rt |-> g.rt,
         ret |-> [status |-> "healthy",
                  provider |-> IF backend_type = "mlx" THEN "apple-mlx"
                               ELSE "pytorch-cpu",
                  version |-> None,
                  model |-> ReportedModelSize(g.rt),
                  device |-> IF backend_type = "mlx" THEN "metal"
                             ELSE g.rt.device]]

\* Mutant: the smaller size is put in front instead of appended.
Mut_AvailableSizes_inserted_first(backend_type) ==
    IF backend_type = "pytorch" THEN <<"0.6B", "1.7B">> ELSE <<"1.7B">>

\* The sizes status() advertises for a backend type.
AvailableSizes(backend_type) ==
    IF backend_type = "pytorch" THEN <<"1.7B", "0.6B">> ELSE <<"1.7B">>

\* torch.cuda.is_available() and torch.cuda.memory_allocated() / 1024 / 1024
\* as status() reads them; host.torch is "missing" (ImportError), "cpu" or
\* "cuda".  The result is [gpu_available, vram_used_mb] before the final
\* "int(vram_used_mb) if vram_used_mb else None".
GpuProbe(backend_type, host, allocated) ==
    IF backend_type # "pytorch" \/ host.torch = "missing"
    THEN [gpu_available |-> <<>>, vram_used_mb |-> <<>>]
    ELSE IF host.torch = "cuda"
    THEN [gpu_available |-> <<TRUE>>, vram_used_mb |-> <<allocated>>]
    ELSE [gpu_available |-> <<FALSE>>, vram_used_mb |-> <<>>]

\* int(vram_used_mb) if vram_used_mb else None, on bytes / 1024 / 1024.
VramField(vram) ==
    IF vram = <<>> \/ vram = <<0>>
    THEN <<>>
    ELSE <<vram[1] \div (1024 * 1024)>>

BundledProvider_status(self, rt, env, host, allocated) ==
    LET g == BundledProvider_get_backend(self, rt)
        backend_type == get_backend_type(env, host)
        probe == GpuProbe(backend_type, host, allocated)
    IN  [self |-> g.self, rt |-> g.rt,
         ret |-> [model_loaded |-> Runtime_is_loaded(g.rt),
                  model_size |-> ReportedModelSize(g.rt),
                  available_sizes |-> AvailableSizes(backend_type),
                  gpu_available |-> probe.gpu_available,
                  vram_used_mb |-> VramField(probe.vram_used_mb)]]

---------------------------------------------------------------------------
(* combine_voice_prompts of LocalProvider and ReplicateTTSBackend.         *)
(* A reference file is [sr, samples]; a waveform is a sequence of samples, *)
(* each tagged with the clip it came from; a text is a sequence of words   *)
(* and separators.  io lists the files read, by position in audio_paths.   *)

\* np.concatenate(arrays): raises on an empty list.
RECURSIVE Concat(_)
Concat(arrays) ==
    IF Len(arrays) = 0 THEN <<>> ELSE Head(arrays) \o Concat(Tail(arrays))

\* sep.join(texts)
RECURSIVE Join(_, _)
Join(texts, sep) ==
    IF Len(texts) = 0 THEN <<>>
    ELSE IF Len(texts) = 1 THEN texts[1]
    ELSE texts[1] \o <<sep>> \o Join(Tail(texts), sep)

\* librosa.resample(audio, orig_sr, target_sr): ceil(n * target_sr / orig_sr)
\* samples of the same clip.
Resample(audio, orig_sr, target_sr) ==
    IF Len(audio) = 0 THEN <<>>
    ELSE [i \in 1..((Len(audio) * target_sr + orig_sr - 1) \div orig_sr) |-> audio[1]]

\* utils.audio.load_audio / normalize_audio as LocalProvider uses them: the
\* file's samples, amplitude rescaled.
load_audio(file) == file.samples

normalize_audio(audio) == audio

ConcatError == "ValueError: need at least one array to concatenate"

\* The for loop of LocalProvider.combine_voice_prompts from index i on.
RECURSIVE LocalCombineLoop(_, _, _, _)
LocalCombineLoop(audio_paths, i, combined_audio, io) ==
    IF i > Len(audio_paths)
    THEN [raised |-> None, combined_audio |-> combined_audio, io |-> io]
    ELSE LocalCombineLoop(audio_paths, i + 1,
             Append(combined_audio, normalize_audio(load_audio(audio_paths[i]))),
             Append(io, i))

LocalProvider_combine_voice_prompts(audio_paths, reference_texts) ==
    LET l == LocalCombineLoop(audio_paths, 1, <<>>, <<>>)
    IN  IF l.raised # None
        THEN [raised |-> l.raised, io |-> l.io, ret |-> <<>>]
        ELSE IF Len(l.combined_audio) = 0
        THEN [raised |-> ConcatError, io |-> l.io, ret |-> <<>>]
        ELSE [raised |-> None, io |-> l.io,
              ret |-> <<normalize_audio(Concat(l.combined_audio)),
                        Join(reference_texts, " ")>>]

\* The for loop of ReplicateTTSBackend.combine_voice_prompts from index i on;
\* sample_rate is 0 while it is still None.
RECURSIVE ReplicateCombineLoop(_, _, _, _, _)
ReplicateCombineLoop(audio_paths, i, combined_audio, sample_rate, io) ==
    IF i > Len(audio_paths)
    THEN [raised |-> None, combined_audio |-> combined_audio, io |-> io]
    ELSE LET audio == audio_paths[i].samples
             sr == audio_paths[i].sr
         IN  IF sample_rate = 0
             THEN ReplicateCombineLoop(audio_paths, i + 1,
                      Append(combined_audio, audio), sr, Append(io, i))
             ELSE IF sr # sample_rate
             THEN ReplicateCombineLoop(audio_paths, i + 1,
                      Append(combined_audio, Resample(audio, sr, sample_rate)),
                      sample_rate, Append(io, i))
             ELSE ReplicateCombineLoop(audio_paths, i + 1,
                      Append(combined_audio, audio), sample_rate, Append(io, i))

\* Mutant: every clip is appended as read, at its own sample rate.
Mut_combine_voice_prompts_unresampled(audio_paths, reference_texts) ==
    IF Len(audio_paths) = 0
    THEN [raised |-> ConcatError, io |-> <<>>, ret |-> <<>>]
    ELSE [raised |-> None, io |-> [i \in 1..Len(audio_paths) |-> i],
          ret |-> <<Concat([i \in 1..Len(audio_paths) |-> audio_paths[i].samples]),
                    Join(reference_texts, " ")>>]

ReplicateTTSBackend_combine_voice_prompts(audio_paths, reference_texts) ==
    LET l == ReplicateCombineLoop(audio_paths, 1, <<>>, 0, <<>>)
    IN  IF l.raised # None
        THEN [raised |-> l.raised, io |-> l.io, ret |-> <<>>]
        ELSE IF Len(l.combined_audio) = 0
        THEN [raised |-> ConcatError, io |-> l.io, ret |-> <<>>]
        ELSE [raised |-> None, io |-> l.io,
              ret |-> <<Concat(l.combined_audio), Join(reference_texts, " ")>>]

\* How many clips and texts a caller passes at most.
MaxClips == 2

SeqsUpTo(S, n) == UNION {[1..k -> S] : k \in 0..n}

ClipFiles ==
    {[sr |-> 16000, samples |-> <<"a">>],
     [sr |-> 8000, samples |-> <<"b", "b">>]}

RefTexts == {<<"hi">>, <<>>}

---------------------------------------------------------------------------
(* What the sidecar may answer.                                            *)

NoData == [present |-> {}, val |-> <<>>]

Json(present, val) == [present |-> present, val |-> val]

GeneratePayloads ==
    {Json(ks, [audio |-> "UklGRg==", sample_rate |-> 24000]) :
        ks \in {{"audio", "sample_rate"}, {"audio"}, {}}}

VoicePromptPayloads ==
    {Json(ks, [voice_prompt |-> "prompt", was_cached |-> TRUE]) :
        ks \in {{"voice_prompt", "was_cached"}, {"voice_prompt"}, {}}}

HealthPayloads ==
    {Json(ks, [status |-> "healthy", provider |-> "pytorch-cuda",
               version |-> "1.0", model |-> m, device |-> "cuda"]) :
        ks \in {{"status", "provider", "version", "model", "device"},
                {"status", "provider"}, {"provider", "model"}},
        m \in {"1.7B", "0.6B"}}

StatusPayloads ==
    {Json(ks, [model_loaded |-> TRUE, model_size |-> m,
               available_sizes |-> <<"1.7B", "0.6B">>,
               gpu_available |-> <<TRUE>>, vram_used_mb |-> <<512>>]) :
        ks \in {{"model_loaded", "model_size", "available_sizes",
                 "gpu_available", "vram_used_mb"},
                {"model_loaded"}, {"model_size"}},
        m \in {"1.7B", "0.6B"}}

\* An answer: the transport outcome and, for a JSON body, its content.
Responses(payloads) ==
    {[outcome |-> o, data |-> NoData] : o \in Outcomes \ {"json"}}
        \cup {[outcome |-> "json", data |-> d] : d \in payloads}

---------------------------------------------------------------------------
(* Steps.                                                                  *)

\* The label of a step: the operation, the phase of it this step ran, the
\* inputs the step read, what it raised (None: nothing), the I/O it started
\* (HTTP requests, hosted jobs, file reads) and what it returned.
Ev(op, phase, in, raised, io, ret) ==
    [op |-> op, phase |-> phase, in |-> in, raised |-> raised,
     io |-> io, ret |-> ret]

NoIn == <<>>

Suspend(t) == tasks' = tasks (+) SetToBag({t})

\* The event loop resumes a suspended coroutine.
Resume(t) == /\ loop = "free"
             /\ BagIn(t, tasks)
             /\ tasks' = tasks (-) SetToBag({t})

\* The event loop can start a call when its thread is not inside a blocking
\* call; fewer than MaxTasks coroutines are suspended at a time.
CanCall == loop = "free" /\ BagCardinality(tasks) < MaxTasks

\* A call that reads and writes no field of the provider and never suspends
\* is taken between the other calls.
CanCallStateless == loop = "free" /\ tasks = EmptyBag

LocalGenerate ==
    /\ kind = "local"
    /\ CanCall
    /\ LET r == LocalProvider_generate_send(local)
       IN  /\ ev' = Ev("generate", "call", NoIn, r.raised, r.sent, <<>>)
           /\ IF r.raised = None
              THEN Suspend(Task("generate", "await", NoVal))
              ELSE tasks' = tasks
    /\ UNCHANGED <<kind, bundled, runtime, platform, local, requested, cloud, replicate, loop>>

LocalGenerateResume ==
    /\ kind = "local"
    /\ Resume(Task("generate", "await", NoVal))
    /\ \E resp \in Responses(GeneratePayloads) :
         LET r == LocalProvider_generate_recv(resp.outcome, resp.data)
         IN  ev' = Ev("generate", "resume", resp, r.raised, <<>>, r.ret)
    /\ UNCHANGED <<kind, bundled, runtime, platform, local, requested, cloud, replicate, loop>>

LocalCreateVoicePrompt ==
    /\ kind = "local"
    /\ CanCall
    /\ \E file_exists \in BOOLEAN :
         LET r == LocalProvider_create_voice_prompt_send(local, file_exists)
         IN  /\ ev' = Ev("create_voice_prompt", "call",
                         [file_exists |-> file_exists], r.raised, r.sent, <<>>)
             /\ IF r.raised = None
                THEN Suspend(Task("create_voice_prompt", "await", NoVal))
                ELSE tasks' = tasks
    /\ UNCHANGED <<kind, bundled, runtime, platform, local, requested, cloud, replicate, loop>>

LocalCreateVoicePromptResume ==
    /\ kind = "local"
    /\ Resume(Task("create_voice_prompt", "await", NoVal))
    /\ \E resp \in Responses(VoicePromptPayloads) :
         LET r == LocalProvider_create_voice_prompt_recv(resp.outcome, resp.data)
         IN  ev' = Ev("create_voice_prompt", "resume", resp, r.raised, <<>>, r.ret)
    /\ UNCHANGED <<kind, bundled, runtime, platform, local, requested, cloud, replicate, loop>>

LocalLoadModel ==
    /\ kind = "local"
    /\ loop = "free"
    /\ \E model_size \in SizeArgs :
         /\ local' = LocalProvider_load_model_async(local, model_size)
         /\ requested' = model_size
         /\ ev' = Ev("load_model", "call", [model_size |-> model_size],
                     None, <<>>, <<>>)
    /\ UNCHANGED <<kind, bundled, runtime, platform, cloud, replicate, loop, tasks>>

LocalUnloadModel ==
    /\ kind = "local"
    /\ loop = "free"
    /\ local' = LocalProvider_unload_model(local)
    /\ ev' = Ev("unload_model", "call", NoIn, None, <<>>, <<>>)
    /\ UNCHANGED <<kind, bundled, runtime, platform, requested, cloud, replicate, loop, tasks>>

LocalIsLoaded ==
    /\ kind = "local"
    /\ loop = "free"
    /\ ev' = Ev("is_loaded", "call", NoIn, None, <<>>,
                LocalProvider_is_loaded(local))
    /\ UNCHANGED <<kind, bundled, runtime, platform, local, requested, cloud, replicate, loop, tasks>>

LocalGetModelPath ==
    /\ kind = "local"
    /\ CanCallStateless
    /\ \E model_size \in SizeArgs :
         ev' = Ev("get_model_path", "call", [model_size |-> model_size], None,
                  <<>>, LocalProvider_get_model_path(model_size))
    /\ UNCHANGED <<kind, bundled, runtime, platform, local, requested, cloud, replicate, loop, tasks>>

\* health(): the GET; a closed client makes the call return at once through
\* the except branch.
LocalHealth ==
    /\ kind = "local"
    /\ CanCall
    /\ LET s == ClientSend(local, Request("GET", "/tts/health", None))
       IN  IF s.raised = None
           THEN /\ Suspend(Task("health", "await", NoVal))
                /\ ev' = Ev("health", "call", NoIn, None, s.sent, <<>>)
           ELSE /\ tasks' = tasks
                /\ LET r == LocalProvider_health(s.raised, "refused", NoData)
                   IN  ev' = Ev("health", "return", [cause |-> "closed"],
                                r.raised, <<>>, r.ret)
    /\ UNCHANGED <<kind, bundled, runtime, platform, local, requested, cloud, replicate, loop>>

LocalHealthResume ==
    /\ kind = "local"
    /\ Resume(Task("health", "await", NoVal))
    /\ \E resp \in Responses(HealthPayloads) :
         LET r == LocalProvider_health(None, resp.outcome, resp.data)
         IN  ev' = Ev("health", "return",
                      [cause |-> resp.outcome, data |-> resp.data],
                      r.raised, <<>>, r.ret)
    /\ UNCHANGED <<kind, bundled, runtime, platform, local, requested, cloud, replicate, loop>>

LocalStatus ==
    /\ kind = "local"
    /\ CanCall
    /\ LET s == ClientSend(local, Request("GET", "/tts/status", None))
       IN  IF s.raised = None
           THEN /\ Suspend(Task("status", "await", NoVal))
                /\ ev' = Ev("status", "call", NoIn, None, s.sent, <<>>)
           ELSE /\ tasks' = tasks
                /\ LET r == LocalProvider_status(s.raised, "refused", NoData)
                   IN  ev' = Ev("status", "return", [cause |-> "closed"],
                                r.raised, <<>>, r.ret)
    /\ UNCHANGED <<kind, bundled, runtime, platform, local, requested, cloud, replicate, loop>>

LocalStatusResume ==
    /\ kind = "local"
    /\ Resume(Task("status", "await", NoVal))
    /\ \E resp \in Responses(StatusPayloads) :
         LET r == LocalProvider_status(None, resp.outcome, resp.data)
         IN  ev' = Ev("status", "return",
                      [cause |-> resp.outcome, data |-> resp.data],
                      r.raised, <<>>, r.ret)
    /\ UNCHANGED <<kind, bundled, runtime, platform, local, requested, cloud, replicate, loop>>

LocalStop ==
    /\ kind = "local"
    /\ loop = "free"
    /\ local' = LocalProvider_stop(local)
    /\ ev' = Ev("stop", "call", NoIn, None, <<>>, <<>>)
    /\ UNCHANGED <<kind, bundled, runtime, platform, requested, cloud, replicate, loop, tasks>>

LocalCombineVoicePrompts ==
    /\ kind = "local"
    /\ CanCallStateless
    /\ \E audio_paths \in SeqsUpTo(ClipFiles, MaxClips),
          reference_texts \in SeqsUpTo(RefTexts, MaxClips) :
         LET r == LocalProvider_combine_voice_prompts(audio_paths, reference_texts)
         IN  ev' = Ev("combine_voice_prompts", "call",
                      [audio_paths |-> audio_paths,
                       reference_texts |-> reference_texts],
                      r.raised, r.io, r.ret)
    /\ UNCHANGED <<kind, bundled, runtime, platform, local, requested, cloud, replicate, loop, tasks>>

LocalNext ==
    \/ LocalGenerate \/ LocalGenerateResume
    \/ LocalCreateVoicePrompt \/ LocalCreateVoicePromptResume
    \/ LocalCombineVoicePrompts
    \/ LocalLoadModel \/ LocalUnloadModel \/ LocalIsLoaded \/ LocalGetModelPath
    \/ LocalHealth \/ LocalHealthResume \/ LocalStatus \/ LocalStatusResume
    \/ LocalStop

---------------------------------------------------------------------------
(* Steps of the cloud provider.                                            *)

\* Snapshots of the two credential variables (None: unset).
CredEnvs ==
    {[REPLICATE_API_TOKEN |-> t, REPLICATE_API_KEY |-> k] :
        t \in {None, "", "r8_token"}, k \in {None, "r8_key"}}

\* The label of a step that did not read the environment.
EnvUnread == [REPLICATE_API_TOKEN |-> "unread", REPLICATE_API_KEY |-> "unread"]

Dict(present, val) == [present |-> present, val |-> val]

\* Voice prompts a caller may pass to generate.
VoicePrompts ==
    {Dict(ks, [audio_base64 |-> a, audio_mime_type |-> "audio/mpeg",
               reference_text |-> "hi", backend |-> "replicate"]) :
        ks \in {{"audio_base64", "audio_mime_type", "reference_text", "backend"}},
        a \in {"UklGRg==", ""}}
      \cup {Dict({"audio_base64"},
                 [audio_base64 |-> "UklGRg==", audio_mime_type |-> "",
                  reference_text |-> "", backend |-> ""]),
            Dict({"audio_mime_type", "reference_text", "backend"},
                 [audio_base64 |-> "", audio_mime_type |-> "audio/mpeg",
                  reference_text |-> "hi", backend |-> "replicate"])}

\* The text, language and seed arguments of generate.
GenerateArgs ==
    {[text |-> "hello", language |-> "en", seed |-> <<>>],
     [text |-> "", language |-> "zh", seed |-> <<7>>]}

\* Reference files a caller may name.
Paths ==
    {[ext |-> e, exists |-> TRUE, bytes |-> b] :
        e \in {".wav", ".WAV", ".mp3", ".Mp3", ".flac", ".ogg", ".m4a", ".aac", ""},
        b \in {"RIFF", ""}}
      \cup {[ext |-> ".wav", exists |-> FALSE, bytes |-> ""]}

\* A call of the hosted API: which model, on which thread, with which client.
JobCall(model, thread, client) ==
    [call |-> "replicate.run", model |-> model, thread |-> thread, client |-> client]

CloudLoadModel ==
    /\ kind = "replicate"
    /\ loop = "free"
    /\ \E env \in CredEnvs :
         LET r == ReplicateTTSBackend_load_model_async(cloud, replicate, env)
         IN  /\ cloud' = r.self
             /\ ev' = Ev("load_model", "call", [env |-> env, was |-> cloud],
                         r.raised, <<>>, <<>>)
    /\ UNCHANGED <<kind, bundled, runtime, platform, local, requested, replicate, loop, tasks>>

CloudUnloadModel ==
    /\ kind = "replicate"
    /\ loop = "free"
    /\ cloud' = ReplicateTTSBackend_unload_model(cloud)
    /\ ev' = Ev("unload_model", "call", [was |-> cloud], None, <<>>, <<>>)
    /\ UNCHANGED <<kind, bundled, runtime, platform, local, requested, replicate, loop, tasks>>

CloudIsLoaded ==
    /\ kind = "replicate"
    /\ loop = "free"
    /\ ev' = Ev("is_loaded", "call", NoIn, None, <<>>,
                ReplicateTTSBackend_is_loaded(cloud))
    /\ UNCHANGED <<kind, bundled, runtime, platform, local, requested, cloud, replicate, loop, tasks>>

CloudGetModelPath ==
    /\ kind = "replicate"
    /\ CanCallStateless
    /\ \E model_size \in SizeArgs :
         ev' = Ev("get_model_path", "call", [model_size |-> model_size], None,
                  <<>>, ReplicateTTSBackend_get_model_path(model_size))
    /\ UNCHANGED <<kind, bundled, runtime, platform, local, requested, cloud, replicate, loop, tasks>>

CloudCreateVoicePrompt ==
    /\ kind = "replicate"
    /\ CanCallStateless
    /\ \E path \in Paths, use_cache \in BOOLEAN :
         LET r == ReplicateTTSBackend_create_voice_prompt(path, "hi", use_cache)
         IN  ev' = Ev("create_voice_prompt", "call",
                      [path |-> path, use_cache |-> use_cache],
                      r.raised, <<>>, r.ret)
    /\ UNCHANGED <<kind, bundled, runtime, platform, local, requested, cloud, replicate, loop, tasks>>

\* generate, up to the await of run_in_executor.  ret is what was handed to
\* the executor.
CloudGenerate ==
    /\ kind = "replicate"
    /\ CanCall
    /\ \E env \in IF cloud.loaded THEN {EnvUnread} ELSE CredEnvs,
          a \in GenerateArgs, voice_prompt \in VoicePrompts :
         LET r == ReplicateTTSBackend_generate(cloud, replicate, env, a.text,
                                               voice_prompt, a.seed)
         IN  /\ cloud' = r.self
             /\ ev' = Ev("generate", "call",
                         [env |-> env, text |-> a.text, language |-> a.language,
                          voice_prompt |-> voice_prompt, was |-> cloud],
                         r.raised, <<>>, r.submitted)
             /\ IF r.raised = None
                THEN Suspend(Task("generate", "executor_queued", NoVal))
                ELSE tasks' = tasks
    /\ UNCHANGED <<kind, bundled, runtime, platform, local, requested, replicate, loop>>

\* A worker thread of the default executor takes run_sync and calls
\* self._client.run: this thread runs beside the event loop.
WorkerStart ==
    /\ kind = "replicate"
    /\ BagIn(Task("generate", "executor_queued", NoVal), tasks)
    /\ LET e == RunSyncStart(cloud)
           t == IF e = None
                THEN Task("generate", "job_running", NoVal)
                ELSE Task("generate", "job_done", Output("exception", <<e>>))
       IN  /\ tasks' = (tasks (-) SetToBag({Task("generate", "executor_queued", NoVal)}))
                          (+) SetToBag({t})
           /\ ev' = Ev("generate", "worker_start", NoIn, e,
                       IF e = None
                       THEN <<JobCall("qwen/qwen3-tts", "worker", cloud.client)>>
                       ELSE <<>>,
                       <<>>)
    /\ UNCHANGED <<kind, bundled, runtime, platform, local, requested, cloud, replicate, loop>>

\* The hosted job ends: client.run returns a value or raises.
WorkerFinish ==
    /\ kind = "replicate"
    /\ BagIn(Task("generate", "job_running", NoVal), tasks)
    /\ \E out \in JobOutputs \cup {Output("exception", <<"ReplicateError">>)} :
         /\ tasks' = (tasks (-) SetToBag({Task("generate", "job_running", NoVal)}))
                        (+) SetToBag({Task("generate", "job_done", out)})
         /\ ev' = Ev("generate", "worker_finish", NoIn, None, <<>>, out)
    /\ UNCHANGED <<kind, bundled, runtime, platform, local, requested, cloud, replicate, loop>>

\* The executor future is done: generate goes on with _download_audio(output),
\* or re-raises what run_sync raised.
CloudGenerateJobDone ==
    /\ kind = "replicate"
    /\ \E t \in BagToSet(tasks) :
         /\ t.op = "generate" /\ t.pc = "job_done"
         /\ loop = "free"
         /\ IF t.val.type = "exception"
            THEN /\ tasks' = tasks (-) SetToBag({t})
                 /\ ev' = Ev("generate", "job_done", [output |-> t.val],
                             t.val.items[1], <<>>, <<>>)
            ELSE LET d == ReplicateTTSBackend_download_audio(t.val)
                 IN  /\ ev' = Ev("generate", "job_done", [output |-> t.val],
                                 d.raised, d.request, <<>>)
                     /\ IF d.raised = None
                        THEN tasks' = (tasks (-) SetToBag({t})) (+)
                                 SetToBag({Task("generate", "downloading",
                                                Output("str", d.request))})
                        ELSE tasks' = tasks (-) SetToBag({t})
    /\ UNCHANGED <<kind, bundled, runtime, platform, local, requested, cloud, replicate, loop>>

\* The download ends: raise_for_status, decode, return (audio, sample_rate).
CloudGenerateDownloaded ==
    /\ kind = "replicate"
    /\ \E t \in BagToSet(tasks) :
         /\ t.op = "generate" /\ t.pc = "downloading"
         /\ Resume(t)
         /\ \E outcome \in DownloadOutcomes(t.val.items[1]) :
              ev' = Ev("generate", "return", [url |-> t.val.items[1], outcome |-> outcome],
                       DownloadError(outcome), <<>>,
                       IF outcome = "ok" THEN <<"audio", 24000>> ELSE <<>>)
    /\ UNCHANGED <<kind, bundled, runtime, platform, local, requested, cloud, replicate, loop>>

\* ReplicateSTTBackend.transcribe: client.run is called in the coroutine
\* itself, so the event-loop thread sits in it until the job ends.
CloudTranscribe ==
    /\ kind = "replicate"
    /\ loop = "free"
    /\ \E env \in CredEnvs, file_exists \in BOOLEAN :
         LET e == ReplicateSTTBackend_transcribe(replicate, env, file_exists)
         IN  /\ ev' = Ev("transcribe", "call",
                         [env |-> env, file_exists |-> file_exists], e,
                         IF e = None
                         THEN <<JobCall("openai/whisper", "loop",
                                        Or(EnvGet(env, "REPLICATE_API_TOKEN"),
                                           EnvGet(env, "REPLICATE_API_KEY")))>>
                         ELSE <<>>,
                         <<>>)
             /\ loop' = IF e = None THEN "transcribe" ELSE "free"
    /\ UNCHANGED <<kind, bundled, runtime, platform, local, requested, cloud, replicate, tasks>>

TranscribeOutputs ==
    {Output("dict", <<Dict({"transcription"}, [transcription |-> "hi there"])>>),
     Output("dict", <<Dict({}, [transcription |-> ""])>>),
     Output("object", <<"hi there">>),
     Output("exception", <<"ReplicateError">>)}

CloudTranscribeJobDone ==
    /\ kind = "replicate"
    /\ loop = "transcribe"
    /\ loop' = "free"
    /\ \E out \in TranscribeOutputs :
         ev' = IF out.type = "exception"
               THEN Ev("transcribe", "return", [output |-> out],
                       out.items[1], <<>>, <<>>)
               ELSE Ev("transcribe", "return", [output |-> out], None, <<>>,
                       ReplicateSTTBackend_transcribe_result(out))
    /\ UNCHANGED <<kind, bundled, runtime, platform, local, requested, cloud, replicate, tasks>>

CloudCombineVoicePrompts ==
    /\ kind = "replicate"
    /\ CanCallStateless
    /\ \E audio_paths \in SeqsUpTo(ClipFiles, MaxClips),
          reference_texts \in SeqsUpTo(RefTexts, MaxClips) :
         LET r == ReplicateTTSBackend_combine_voice_prompts(audio_paths,
                                                            reference_texts)
         IN  ev' = Ev("combine_voice_prompts", "call",
                      [audio_paths |-> audio_paths,
                       reference_texts |-> reference_texts],
                      r.raised, r.io, r.ret)
    /\ UNCHANGED <<kind, bundled, runtime, platform, local, requested, cloud, replicate, loop, tasks>>

CloudNext ==
    \/ CloudLoadModel \/ CloudUnloadModel \/ CloudIsLoaded \/ CloudGetModelPath
    \/ CloudCreateVoicePrompt \/ CloudCombineVoicePrompts
    \/ CloudGenerate \/ WorkerStart \/ WorkerFinish
    \/ CloudGenerateJobDone \/ CloudGenerateDownloaded
    \/ CloudTranscribe \/ CloudTranscribeJobDone

---------------------------------------------------------------------------
(* Steps of the in-process provider and of the selector.                   *)

\* Snapshots of the environment get_backend_type reads.
SelectorEnvs ==
    {[TTS_BACKEND |-> o, REPLICATE_API_TOKEN |-> t, REPLICATE_API_KEY |-> k] :
        o \in {None, "mlx", "MLX", "pytorch", "replicate", "cuda"},
        t \in {None, "", "r8_token"}, k \in {None, "r8_key"}}

Hosts ==
    [system : {"Darwin", "Linux"}, machine : {"arm64", "x86_64"},
     mlx : BOOLEAN, torch : {"missing", "cpu", "cuda"}]

\* Bytes torch.cuda.memory_allocated() may report.
AllocatedBytes == {0, 1572864, 536870912}

SelectBackend ==
    /\ kind = "bundled"
    /\ CanCallStateless
    /\ \E env \in SelectorEnvs :
         ev' = Ev("get_backend_type", "call", [env |-> env], None, <<>>,
                  get_backend_type(env, platform))
    /\ UNCHANGED <<kind, local, requested, bundled, runtime, platform, cloud,
                   replicate, loop, tasks>>

BundledLoadModel ==
    /\ kind = "bundled"
    /\ loop = "free"
    /\ \E model_size \in SizeArgs :
         LET r == BundledProvider_load_model_async(bundled, runtime, model_size)
         IN  /\ bundled' = r.self
             /\ runtime' = r.rt
             /\ ev' = Ev("load_model", "call", [model_size |-> model_size],
                         None, <<>>, <<>>)
    /\ UNCHANGED <<kind, local, requested, platform, cloud, replicate, loop, tasks>>

BundledUnloadModel ==
    /\ kind = "bundled"
    /\ loop = "free"
    /\ LET r == BundledProvider_unload_model(bundled, runtime)
       IN  /\ bundled' = r.self
           /\ runtime' = r.rt
    /\ ev' = Ev("unload_model", "call", NoIn, None, <<>>, <<>>)
    /\ UNCHANGED <<kind, local, requested, platform, cloud, replicate, loop, tasks>>

BundledIsLoaded ==
    /\ kind = "bundled"
    /\ loop = "free"
    /\ LET r == BundledProvider_is_loaded(bundled, runtime)
       IN  /\ bundled' = r.self
           /\ runtime' = r.rt
           /\ ev' = Ev("is_loaded", "call", NoIn, None, <<>>, r.ret)
    /\ UNCHANGED <<kind, local, requested, platform, cloud, replicate, loop, tasks>>

BundledHealth ==
    /\ kind = "bundled"
    /\ loop = "free"
    /\ \E env \in SelectorEnvs :
         LET r == BundledProvider_health(bundled, runtime, env, platform)
         IN  /\ bundled' = r.self
             /\ runtime' = r.rt
             /\ ev' = Ev("health", "return",
                         [backend_type |-> get_backend_type(env, platform),
                          was |-> bundled],
                         None, <<>>, r.ret)
    /\ UNCHANGED <<kind, local, requested, platform, cloud, replicate, loop, tasks>>

BundledStatus ==
    /\ kind = "bundled"
    /\ loop = "free"
    /\ \E env \in SelectorEnvs,
          allocated \in IF platform.torch = "cuda" THEN AllocatedBytes ELSE {0} :
         LET r == BundledProvider_status(bundled, runtime, env, platform, allocated)
         IN  /\ bundled' = r.self
             /\ runtime' = r.rt
             /\ ev' = Ev("status", "return",
                         [backend_type |-> get_backend_type(env, platform),
                          allocated |-> allocated, was |-> bundled],
                         None, <<>>, r.ret)
    /\ UNCHANGED <<kind, local, requested, platform, cloud, replicate, loop, tasks>>

\* generate up to the await of backend.generate: the coroutine is suspended
\* while the runtime synthesizes.
BundledGenerate ==
    /\ kind = "bundled"
    /\ CanCall
    /\ \E lazy \in IF Runtime_is_loaded(runtime) THEN {FALSE} ELSE BOOLEAN :
         LET r == BundledProvider_generate(bundled, runtime, lazy)
         IN  /\ bundled' = r.self
             /\ runtime' = r.rt
             /\ ev' = Ev("generate", "call", [lazy |-> lazy, was |-> bundled],
                         r.raised, <<>>, <<>>)
             /\ IF r.raised = None
                THEN Suspend(Task("generate", "runtime", NoVal))
                ELSE tasks' = tasks
    /\ UNCHANGED <<kind, local, requested, platform, cloud, replicate, loop>>

\* The runtime's synthesis ends and generate returns what it returned.
BundledGenerateResume ==
    /\ kind = "bundled"
    /\ Resume(Task("generate", "runtime", NoVal))
    /\ \E e \in Runtime_generate_outcomes(runtime) :
         ev' = Ev("generate", "return",
                  [model_loaded |-> Runtime_is_loaded(runtime), was |-> bundled],
                  e, <<>>, IF e = None THEN <<"audio", 24000>> ELSE <<>>)
    /\ UNCHANGED <<kind, local, requested, bundled, runtime, platform, cloud,
                   replicate, loop>>

BundledCreateVoicePrompt ==
    /\ kind = "bundled"
    /\ loop = "free"
    /\ LET r == BundledProvider_create_voice_prompt(bundled, runtime)
       IN  /\ bundled' = r.self
           /\ runtime' = r.rt
    /\ ev' = Ev("create_voice_prompt", "call", [was |-> bundled], None, <<>>,
                <<"prompt", FALSE>>)
    /\ UNCHANGED <<kind, local, requested, platform, cloud, replicate, loop, tasks>>

BundledCombineVoicePrompts ==
    /\ kind = "bundled"
    /\ loop = "free"
    /\ LET r == BundledProvider_combine_voice_prompts(bundled, runtime)
       IN  /\ bundled' = r.self
           /\ runtime' = r.rt
    /\ ev' = Ev("combine_voice_prompts_runtime", "call", [was |-> bundled], None,
                <<>>, <<"combined">>)
    /\ UNCHANGED <<kind, local, requested, platform, cloud, replicate, loop, tasks>>

BundledGetModelPath ==
    /\ kind = "bundled"
    /\ loop = "free"
    /\ \E model_size \in SizeArgs :
         LET r == BundledProvider_get_model_path(bundled, runtime, model_size)
         IN  /\ bundled' = r.self
             /\ runtime' = r.rt
             /\ ev' = Ev("get_model_path", "call",
                         [model_size |-> model_size, was |-> bundled],
                         None, <<>>, r.ret)
    /\ UNCHANGED <<kind, local, requested, platform, cloud, replicate, loop, tasks>>

BundledNext ==
    \/ SelectBackend
    \/ BundledLoadModel \/ BundledUnloadModel \/ BundledIsLoaded
    \/ BundledGenerate \/ BundledGenerateResume
    \/ BundledCreateVoicePrompt \/ BundledCombineVoicePrompts
    \/ BundledGetModelPath
    \/ BundledHealth \/ BundledStatus

---------------------------------------------------------------------------

NoHost == [system |-> "Linux", machine |-> "x86_64", mlx |-> FALSE, torch |-> "missing"]

Init ==
    /\ kind \in Kinds
    /\ local = LocalProvider_init
    /\ requested = None
    /\ bundled = BundledProvider_init
    /\ runtime = Runtime_init
    /\ platform \in IF kind = "bundled" THEN Hosts ELSE {NoHost}
    /\ cloud = ReplicateTTSBackend_init
    /\ replicate \in IF kind = "replicate" THEN {None, "module"} ELSE {None}
    /\ loop = "free"
    /\ tasks = EmptyBag
    /\ ev = Ev("init", "call", NoIn, None, <<>>, <<>>)

Next == LocalNext \/ CloudNext \/ BundledNext

\* Any provider family.
Spec == Init /\ [][Next]_vars

\* The remote-process provider alone.
InitLocal == Init /\ kind = "local"

SpecLocal == InitLocal /\ [][LocalNext]_vars

\* The cloud provider alone.
InitCloud == Init /\ kind = "replicate"

SpecCloud == InitCloud /\ [][CloudNext]_vars

\* The in-process provider and the selector alone.
InitBundled == Init /\ kind = "bundled"

SpecBundled == InitBundled /\ [][BundledNext]_vars

\* The in-process and the remote-process provider.
InitLocalBundled == Init /\ kind \in {"local", "bundled"}

NextLocalBundled == LocalNext \/ BundledNext

SpecLocalBundled == InitLocalBundled /\ [][NextLocalBundled]_vars

---------------------------------------------------------------------------
(* Properties.                                                             *)

\* C1: the model_size of the JSON body a LocalProvider.generate call sends is
\* the argument of the most recent load_model_async call before it, or "1.7B"
\* when there was none; health and status answers never change it.
C1_GenerateSendsRequestedSize ==
    (kind = "local" /\ ev.op = "generate" /\ ev.phase = "call" /\ Len(ev.io) > 0)
        => ev.io[1].model_size = (IF requested = None THEN "1.7B" ELSE requested)

C1_Witness ==
    /\ kind = "local" /\ ev.op = "generate" /\ ev.phase = "call"
    /\ Len(ev.io) > 0
    /\ requested = "0.6B"
    /\ ev.io[1].model_size = "0.6B"
    /\ BagIn(Task("status", "await", NoVal), tasks)

\* The sidecar's answer to a health probe is unusable.
HealthProbeFailed(in) ==
    \/ in.cause \in {"closed", "refused", "timeout", "non2xx", "badjson"}
    \/ in.cause = "json" /\ ~({"status", "provider"} \subseteq in.data.present)

\* The sidecar's answer to a status probe is unusable.
StatusProbeFailed(in) ==
    \/ in.cause \in {"closed", "refused", "timeout", "non2xx", "badjson"}
    \/ in.cause = "json" /\ ~({"model_loaded"} \subseteq in.data.present)

\* C2: LocalProvider.health and status never raise; on connection refused,
\* timeout, non-2xx, malformed JSON, a missing required field or a closed
\* client, health returns "unhealthy" with no version, model or device, and
\* status returns model_loaded = false, no size, no sizes, no GPU/VRAM figure.
C2_ProbesNeverRaise ==
    (kind = "local" /\ ev.op \in {"health", "status"}) =>
        /\ ev.raised = None
        /\ (ev.op = "health" /\ ev.phase = "return" /\ HealthProbeFailed(ev.in)) =>
              /\ ev.ret.status = "unhealthy"
              /\ ev.ret.version = None
              /\ ev.ret.model = None
              /\ ev.ret.device = None
        /\ (ev.op = "status" /\ ev.phase = "return" /\ StatusProbeFailed(ev.in)) =>
              /\ ev.ret.model_loaded = FALSE
              /\ ev.ret.model_size = None
              /\ ev.ret.available_sizes = <<>>
              /\ ev.ret.gpu_available = <<>>
              /\ ev.ret.vram_used_mb = <<>>

C2_Witness ==
    /\ kind = "local" /\ ev.op = "health" /\ ev.phase = "return"
    /\ ev.in.cause = "json"
    /\ "status" \notin ev.in.data.present
    /\ ev.raised = None
    /\ ev.ret.status = "unhealthy"

\* C3 (as claimed, the replicate package being importable):
\* ReplicateTTSBackend.generate with a voice prompt whose audio_base64 is
\* empty or absent fails with the "Reference audio is required" error in
\* every provider state (loaded or not, credential set or not), and hands
\* nothing to the executor (no hosted job, no download).
C3_EmptyAudioRejected ==
    (kind = "replicate" /\ ev.op = "generate" /\ ev.phase = "call"
       /\ replicate # None
       /\ ~Truthy(Get(ev.in.voice_prompt, "audio_base64", None)))
        => /\ ev.raised = ValidationError
           /\ ev.ret = <<>>
           /\ ev.io = <<>>

\* The backend an override value names, None when it names none.
OverrideChoice(o) ==
    CASE o \in {"mlx", "MLX"}         -> "mlx"
      [] o \in {"pytorch", "PyTorch"} -> "pytorch"
      [] o = "replicate"              -> "replicate"
      [] OTHER                        -> None

\* The priority order of the selector, for a given reading of "a credential
\* is there".
SelectorPriority(env, host, credential) ==
    IF OverrideChoice(env.TTS_BACKEND) # None
    THEN OverrideChoice(env.TTS_BACKEND)
    ELSE IF credential
    THEN "replicate"
    ELSE IF host.system = "Darwin" /\ host.machine = "arm64" /\ host.mlx
    THEN "mlx"
    ELSE "pytorch"

C5_MismatchedListsRejected ==
    (ev.op = "combine_voice_prompts"
       /\ Len(ev.in.audio_paths) # Len(ev.in.reference_texts))
        => /\ ev.raised # None
           /\ ev.io = <<>>

\* C6 (as claimed): a health or status step of the in-process or the
\* remote-process provider leaves the provider's state (backend handle,
\* tracked model size, HTTP client) as it was.
C6_ProbesChangeNothing ==
    [][(kind \in {"local", "bundled"} /\ ev'.op \in {"health", "status"})
          => (local' = local /\ bundled' = bundled)]_vars

\* C6 (amended): a health or status step never changes the remote-process
\* provider; it leaves the in-process provider and its runtime as they were
\* when the backend handle is set, and when the handle is still unset it sets
\* the handle to the lazily built runtime and changes nothing else.
C6_ProbesOnlyFillHandle ==
    [][(kind \in {"local", "bundled"} /\ ev'.op \in {"health", "status"})
          => /\ local' = local
             /\ bundled.backend # None =>
                   (bundled' = bundled /\ runtime' = runtime)
             /\ (kind = "bundled" /\ bundled.backend = None) =>
                   /\ bundled' = [bundled EXCEPT !.backend = "runtime"]
                   /\ runtime'.loaded = runtime.loaded
                   /\ runtime'.current_model_size = runtime.current_model_size]_vars

C6_Witness ==
    /\ kind = "bundled" /\ ev.op = "health"
    /\ ev.in.was.backend = None
    /\ bundled.backend = "runtime"

\* A hosted job is running.
JobInFlight ==
    \/ loop = "transcribe"
    \/ BagIn(Task("generate", "job_running", NoVal), tasks)

\* C7 (as claimed): while a hosted job (synthesis or transcription) is in
\* flight the event loop can still run another call.
C7_LoopFreeWhileJobInFlight ==
    (kind = "replicate" /\ JobInFlight) => ENABLED CloudIsLoaded

NoCredential(env) ==
    /\ env.REPLICATE_API_TOKEN \in {None, ""}
    /\ env.REPLICATE_API_KEY \in {None, ""}

NoUsableUrl(output) ==
    \/ output.type = "NoneType"
    \/ output.type = "str" /\ output.items[1] = ""
    \/ output.type \in {"list", "iterator"} /\ Len(output.items) = 0

\* C9 (as claimed): when the job's output holds no usable URL (empty string,
\* empty iterable, null) generate fails with "No audio URL returned" and
\* starts no download; a string is downloaded; the first element of a
\* non-empty iterable is downloaded.
C9_NoUrlIsHardFailure ==
    (kind = "replicate" /\ ev.op = "generate" /\ ev.phase = "job_done"
       /\ ev.in.output.type # "exception") =>
        /\ NoUsableUrl(ev.in.output) =>
              (ev.raised = NoAudioURL /\ ev.io = <<>>)
        /\ (ev.in.output.type = "str" /\ ev.in.output.items[1] # "") =>
              ev.io = <<ev.in.output.items[1]>>
        /\ (ev.in.output.type \in {"list", "iterator"}
              /\ Len(ev.in.output.items) > 0) =>
              ev.io = <<ev.in.output.items[1]>>

\* C10: BundledProvider.status reports available_sizes = ["1.7B"] when the
\* selector resolves to mlx and ["1.7B", "0.6B"] when it resolves to pytorch,
\* loaded or not, on every call.
C10_AvailableSizesByRuntime ==
    (kind = "bundled" /\ ev.op = "status") =>
        /\ ev.in.backend_type = "mlx" => ev.ret.available_sizes = <<"1.7B">>
        /\ ev.in.backend_type = "pytorch" =>
              ev.ret.available_sizes = <<"1.7B", "0.6B">>

C10_Witness ==
    /\ kind = "bundled" /\ ev.op = "status"
    /\ ev.in.backend_type = "pytorch"
    /\ Runtime_is_loaded(runtime)
    /\ ev.ret.available_sizes = <<"1.7B", "0.6B">>

\* ceil(a / b) for b > 0.
CeilDiv(a, b) == -((-a) \div b)

\* How many samples clip i contributes: the cloud provider brings a clip whose
\* rate differs from the first clip's to that rate.
ClipLen(k, paths, i) ==
    IF k = "replicate" /\ paths[i].sr # paths[1].sr
    THEN CeilDiv(Len(paths[i].samples) * paths[1].sr, paths[i].sr)
    ELSE Len(paths[i].samples)

\* Where clip i ends in the combined waveform.
ClipEnd(k, paths) ==
    LET off[i \in 0..Len(paths)] ==
          IF i = 0 THEN 0 ELSE off[i - 1] + ClipLen(k, paths, i)
    IN  off

\* The transcripts, left to right, a single space between two of them.
SpacedTranscript(texts) ==
    LET acc[i \in 0..Len(texts)] ==
          IF i = 0 THEN <<>>
          ELSE IF i = 1 THEN texts[1]
          ELSE acc[i - 1] \o <<" ">> \o texts[i]
    IN  acc[Len(texts)]

\* C11: combine_voice_prompts given N >= 1 clips and as many texts returns
\* one waveform whose length is the sum of the clip lengths (on the cloud
\* provider after resampling to the first clip's rate), the clips in input
\* order, and the texts joined by single spaces in input order.
C11_CombineConcatenatesInOrder ==
    (ev.op = "combine_voice_prompts"
       /\ Len(ev.in.audio_paths) >= 1
       /\ Len(ev.in.audio_paths) = Len(ev.in.reference_texts)) =>
        LET paths == ev.in.audio_paths
            end == ClipEnd(kind, paths)
        IN  /\ ev.raised = None
            /\ Len(ev.ret[1]) = end[Len(paths)]
            /\ \A i \in 1..Len(paths) :
                  \A p \in (end[i - 1] + 1)..end[i] :
                     \E q \in DOMAIN paths[i].samples :
                        ev.ret[1][p] = paths[i].samples[q]
            /\ ev.ret[2] = SpacedTranscript(ev.in.reference_texts)

C11_Witness ==
    /\ kind = "replicate" /\ ev.op = "combine_voice_prompts"
    /\ Len(ev.in.audio_paths) = 2 /\ Len(ev.in.reference_texts) = 2
    /\ ev.in.audio_paths[1].sr = 16000 /\ ev.in.audio_paths[2].sr = 8000
    /\ ev.raised = None
    /\ ev.ret[1] = <<"a", "b", "b", "b", "b">>
    /\ ev.ret[2] = <<"hi", " ">>

\* The MIME type an extension stands for, letter case aside.
MimeOfExtension(ext) ==
    CASE ext \in {".wav", ".WAV"} -> "audio/wav"
      [] ext \in {".mp3", ".Mp3"} -> "audio/mpeg"
      [] ext = ".flac"            -> "audio/flac"
      [] ext = ".ogg"             -> "audio/ogg"
      [] ext = ".m4a"             -> "audio/mp4"
      [] OTHER                    -> "audio/wav"

\* C12: ReplicateTTSBackend.create_voice_prompt on a readable file tags the
\* prompt with the MIME type of the file's extension (.wav audio/wav, .mp3
\* audio/mpeg, .flac audio/flac, .ogg audio/ogg, .m4a audio/mp4, any other or
\* no extension audio/wav) and raises nothing, whatever the extension.
C12_MimeTypeByExtension ==
    (kind = "replicate" /\ ev.op = "create_voice_prompt" /\ ev.in.path.exists) =>
        /\ ev.raised = None
        /\ ev.ret[1].audio_mime_type = MimeOfExtension(ev.in.path.ext)

C12_Witness ==
    /\ kind = "replicate" /\ ev.op = "create_voice_prompt"
    /\ ev.in.path.exists
    /\ ev.in.path.ext = ".aac"
    /\ ev.raised = None
    /\ ev.ret[1].audio_mime_type = "audio/wav"

\* A BundledProvider.generate call is suspended in the runtime's synthesis.
BundledGenerateInFlight ==
    BagIn(Task("generate", "runtime", NoVal), tasks)

C14_NoRequestAfterStop ==
    (kind = "local" /\ local.client = "closed") =>
        /\ ev.op # "combine_voice_prompts" => ev.io = <<>>
        /\ (ev.op \in {"generate", "create_voice_prompt"} /\ ev.phase = "call") =>
              ev.raised # None
        /\ (ev.op \in {"health", "status"}) =>
              /\ ev.phase = "return"
              /\ ev.raised = None
        /\ (ev.op = "health" /\ ev.in.cause = "closed") => ev.ret = UnhealthyDefault
        /\ (ev.op = "status" /\ ev.in.cause = "closed") => ev.ret = EmptyStatus
        /\ ev.op = "stop" => ev.raised = None

C14_Witness ==
    /\ kind = "local" /\ local.client = "closed"
    /\ ev.op = "generate" /\ ev.phase = "call"
    /\ ev.raised = "RuntimeError"
    /\ ev.io = <<>>

\* How many calls of an operation are suspended at a stage.
Pending(b, op, pc) ==
    BagCardinality([t \in {x \in BagToSet(b) : x.op = op /\ x.pc = pc} |-> CopiesIn(t, b)])

\* One step of a LocalProvider.generate or create_voice_prompt call: the call
\* step sends one request (exactly one when exactlyOne, else at most one and
\* none only when the call raises before sending), the step that takes the
\* answer sends nothing, ends that call, and a failed request is raised to the
\* caller with no result.
LocalCallSendsOnce(exactlyOne) ==
    (kind = "local" /\ ev'.op \in {"generate", "create_voice_prompt"}) =>
        IF ev'.phase = "call"
        THEN /\ Len(ev'.io) <= 1
             /\ exactlyOne => Len(ev'.io) = 1
             /\ Len(ev'.io) = 1 <=> ev'.raised = None
             /\ Pending(tasks', ev'.op, "await") =
                   Pending(tasks, ev'.op, "await") + Len(ev'.io)
        ELSE /\ ev'.io = <<>>
             /\ Pending(tasks', ev'.op, "await") = Pending(tasks, ev'.op, "await") - 1
             /\ ev'.in.outcome # "json" =>
                   (ev'.raised = TransportError(ev'.in.outcome) /\ ev'.ret = <<>>)

\* One step of a ReplicateTTSBackend.generate call: every call hands at most
\* one job to the executor, the worker starts that one job, the finished job
\* leads to at most one download, and a failed job or download is raised to
\* the caller with no result; no step puts a call back to an earlier stage.
CloudCallSubmitsOnce ==
    (kind = "replicate" /\ ev'.op = "generate") =>
        CASE ev'.phase = "call" ->
               /\ ev'.io = <<>> /\ Len(ev'.ret) <= 1
               /\ Len(ev'.ret) = 1 <=> ev'.raised = None
               /\ Pending(tasks', "generate", "executor_queued") =
                     Pending(tasks, "generate", "executor_queued") + Len(ev'.ret)
          [] ev'.phase = "worker_start" ->
               /\ Len(ev'.io) <= 1
               /\ Pending(tasks', "generate", "executor_queued") =
                     Pending(tasks, "generate", "executor_queued") - 1
               /\ Pending(tasks', "generate", "job_running") =
                     Pending(tasks, "generate", "job_running") + Len(ev'.io)
          [] ev'.phase = "worker_finish" ->
               /\ ev'.io = <<>>
               /\ Pending(tasks', "generate", "job_running") =
                     Pending(tasks, "generate", "job_running") - 1
          [] ev'.phase = "job_done" ->
               /\ Len(ev'.io) <= 1
               /\ Pending(tasks', "generate", "job_done") =
                     Pending(tasks, "generate", "job_done") - 1
               /\ Pending(tasks', "generate", "downloading") =
                     Pending(tasks, "generate", "downloading") + Len(ev'.io)
               /\ Pending(tasks', "generate", "executor_queued") =
                     Pending(tasks, "generate", "executor_queued")
               /\ ev'.in.output.type = "exception" =>
                     (ev'.raised = ev'.in.output.items[1] /\ ev'.io = <<>>)
          [] ev'.phase = "return" ->
               /\ ev'.io = <<>>
               /\ BagCardinality(tasks') = BagCardinality(tasks) - 1
               /\ ev'.in.outcome # "ok" =>
                     (ev'.raised = DownloadError(ev'.in.outcome) /\ ev'.ret = <<>>)

\* C15 (as claimed): no retries: one generate or create_voice_prompt call of
\* the remote-process provider sends exactly one HTTP request; one generate
\* call of the cloud provider submits at most one job and starts at most one
\* download; a failed request, job or download is raised to the caller, with
\* no second attempt and no fallback result.
C15_ExactlyOneRequestPerCall ==
    [][LocalCallSendsOnce(TRUE) /\ CloudCallSubmitsOnce]_vars

\* C15 (amended): as above, the remote-process call sending at most one
\* request: exactly one unless it raises before sending (client closed by
\* stop, reference file unreadable), and then none.
C15_AtMostOneRequestPerCall ==
    [][LocalCallSendsOnce(FALSE) /\ CloudCallSubmitsOnce]_vars

C15_Witness ==
    /\ kind = "local" /\ ev.op = "generate" /\ ev.phase = "resume"
    /\ ev.in.outcome = "timeout"
    /\ ev.raised = "TimeoutException"
    /\ ev.ret = <<>>
    /\ ~BagIn(Task("generate", "await", NoVal), tasks)

\* C16: LocalProvider.load_model_async and unload_model send no HTTP
\* request; load_model_async changes only the tracked model size, unload_model
\* changes nothing, so the model_size a generate would post is the same after
\* an unload_model as before it.
C16_LoadUnloadAreLocal ==
    [][(kind = "local" /\ ev'.op \in {"load_model", "unload_model"}) =>
          /\ ev'.io = <<>>
          /\ ev'.raised = None
          /\ tasks' = tasks
          /\ local'.client = local.client
          /\ ev'.op = "load_model" =>
                local'.current_model_size = ev'.in.model_size
          /\ ev'.op = "unload_model" =>
                /\ local' = local
                /\ LocalProvider_generate_send(local') =
                      LocalProvider_generate_send(local)]_vars

C16_Witness ==
    /\ kind = "local" /\ ev.op = "unload_model"
    /\ requested = "0.6B"
    /\ local.client = "open"
    /\ LocalProvider_generate_send(local).sent[1].model_size = "0.6B"

\* The contract operations of the in-process provider.
BundledOps ==
    {"generate", "create_voice_prompt", "combine_voice_prompts_runtime",
     "load_model", "unload_model", "is_loaded", "get_model_path",
     "health", "status"}

\* C17: across every interleaving of the in-process provider's operations
\* the runtime is built at most once, by the first operation that needs it,
\* and every later operation uses that instance: the handle, once set, is
\* never replaced and no further runtime is built.
C17_RuntimeBuiltOnce ==
    [][kind = "bundled" =>
          /\ runtime'.instances <= 1
          /\ bundled.backend = None <=> runtime.instances = 0
          /\ ev'.op \in BundledOps =>
                (bundled'.backend = "runtime" /\ runtime'.instances = 1)
          /\ bundled.backend # None =>
                (bundled' = bundled /\ runtime'.instances = runtime.instances)]_vars

C17_Witness ==
    /\ kind = "bundled" /\ ev.op = "generate" /\ ev.phase = "call"
    /\ ev.in.was.backend = "runtime"
    /\ runtime.instances = 1
    /\ BagCardinality(tasks) = 2

\* C18 (as claimed, torch being importable): BundledProvider.status on the
\* pytorch runtime reports gpu_available = false and no VRAM figure without a
\* GPU, and with a GPU gpu_available = true and the allocated memory in whole
\* megabytes, for every allocated amount including zero bytes; on the mlx
\* runtime it reports no VRAM figure.
C18_VramInWholeMegabytes ==
    (kind = "bundled" /\ ev.op = "status" /\ platform.torch # "missing") =>
        /\ (ev.in.backend_type = "pytorch" /\ platform.torch = "cpu") =>
              (ev.ret.gpu_available = <<FALSE>> /\ ev.ret.vram_used_mb = <<>>)
        /\ (ev.in.backend_type = "pytorch" /\ platform.torch = "cuda") =>
              /\ ev.ret.gpu_available = <<TRUE>>
              /\ ev.ret.vram_used_mb = <<ev.in.allocated \div 1048576>>
        /\ ev.in.backend_type = "mlx" => ev.ret.vram_used_mb = <<>>

\* C19: after any sequence of load_model_async, unload_model and generate
\* calls of the cloud provider, succeeding or failing, is_loaded() is true
\* exactly when a client handle is held; unload_model leaves the provider
\* unloaded with no handle and raises nothing, also when nothing was loaded;
\* generate with a valid prompt on an unloaded provider builds the client
\* first, so a job is handed over or started only while is_loaded() is true.
C19_LoadedIffClientHeld ==
    kind = "replicate" =>
        /\ ReplicateTTSBackend_is_loaded(cloud) <=> cloud.client # None
        /\ ev.op = "unload_model" =>
              /\ ev.raised = None
              /\ ~ReplicateTTSBackend_is_loaded(cloud)
              /\ cloud.client = None
        /\ (ev.op = "generate" /\ ev.phase = "call" /\ ev.ret # <<>>) =>
              (ReplicateTTSBackend_is_loaded(cloud) /\ cloud.client # None)
        /\ (ev.op = "generate" /\ ev.phase = "worker_start" /\ ev.io # <<>>) =>
              (ReplicateTTSBackend_is_loaded(cloud) /\ ev.io[1].client # None)

C19_Witness ==
    /\ kind = "replicate" /\ ev.op = "generate" /\ ev.phase = "call"
    /\ ~ev.in.was.loaded /\ ev.in.was.client = None
    /\ ev.raised = None /\ ev.ret # <<>>
    /\ ReplicateTTSBackend_is_loaded(cloud)
    /\ cloud.client = "r8_key"

\* C20 (as claimed): a synthesis job handed to the executor by
\* ReplicateTTSBackend.generate is run by the worker against a client handle
\* that is not None, under every interleaving: an unload_model executed while
\* the generate call is suspended does not make the worker use a dropped
\* client.
C20_WorkerRunsWithClient ==
    (kind = "replicate" /\ ev.op = "generate" /\ ev.phase = "worker_start") =>
        /\ ev.raised = None
        /\ Len(ev.io) = 1
        /\ ev.io[1].client # None

=============================================================================
